---- MODULE Spec2Model ----
(***************************************************************************)
(* Model of nvr-rs, src/main.rs: main() resolves the stream address of two *)
(* camera profiles over ONVIF, then calls get_camera_stream() for each:    *)
(* RTSP negotiation, RTP receiver and SDL2 surface construction, the       *)
(* poll / receive / decode / paint loop, and the final RTSP Teardown.      *)
(* The ONVIF client, the RTSP client, the RTP receiver/decoder and SDL2    *)
(* are external crates: every fallible call of theirs succeeds or fails    *)
(* nondeterministically, and the model follows what main.rs does with the  *)
(* outcome (`?` returns the error, `expect` panics, `let _ =` ignores it). *)
(***************************************************************************)
EXTENDS Naturals, Sequences, FiniteSets

\* ---------------------------------------------------------------- bounds
\* Packets the transport delivers to one camera's receiver before it errors.
MaxRecv == 2
\* Input events the SDL queue can hold at once.
MaxEvents == 2

\* ------------------------------------------------------- program constants
\* The two cameras main() handles: camera c uses ONVIF profile index c - 1.
Cams == {1, 2}

\* The eight ONVIF calls of main(), in program order: <<message, profile index>>.
DiscoveryCalls ==
    << <<"Capabilities", 0>>, <<"DeviceInfo", 0>>, <<"Profiles", 0>>, <<"GetStreamURI", 0>>,
       <<"Capabilities", 1>>, <<"DeviceInfo", 1>>, <<"Profiles", 1>>, <<"GetStreamURI", 1>> >>

\* The chained RTSP sends of get_camera_stream(), in program order.
Chain == <<"Options", "Describe", "Setup", "Play">>

\* The constructions inside `if rtsp.response_ok`, in program order.
BuildOrder ==
    <<"rtp_new", "connect", "sdl_init", "video", "window", "canvas", "texture", "event_pump">>

\* The constructions whose failure is an `expect` (a panic), not a `?`.
Expects == {"sdl_init", "video", "event_pump"}

\* The input events the display can queue.
Events == {"Quit", "KeyDownEscape", "KeyDownOther"}

\* Variant of IsQuit: the match arm without the Escape key.
IsQuitOnlyQuit(e) == e = "Quit"

\* The match arm of the event loop: Event::Quit or KeyDown of Keycode::Escape.
IsQuit(e) == e \in {"Quit", "KeyDownEscape"}

\* ------------------------------------------------------------------ state
VARIABLES
    pc,              \* program location
    cam,             \* camera whose get_camera_stream() runs (0: none yet)
    disc,            \* ONVIF calls issued so far: <<message, index, ok>>
    sent,            \* per camera, RTSP sends issued so far: <<method, ok>>
    response_ok,     \* rtsp.response_ok of the current Rtsp
    server_addr_rtp, \* rtsp.server_addr_rtp is Some(..)
    negotiated,      \* per camera, what `if rtsp.response_ok` read
    built,           \* per camera, the constructions that succeeded
    events,          \* the SDL input-event queue
    event,           \* per camera, the last event poll_iter() yielded
    texture,         \* the frame held by the static texture (0: blank)
    maybe_some_yuv,  \* the last try_decode() result
    decoded,         \* frames try_decode() returned as Some, in order
    shown,           \* frames presented on the canvas, in order
    nRecv,           \* per camera, get_rtp() calls that returned Ok
    nDecode,         \* per camera, try_decode() calls
    nDecodeErr,      \* per camera, try_decode() calls that returned Err
    nPaint,          \* per camera, canvas.present() calls
    quit_posted,     \* per camera, a quit or escape event was queued in its session
    nRecvQuit,       \* per camera, get_rtp() calls that returned after such an event
    result,          \* per camera, how get_camera_stream() ended
    failed_at        \* per camera, the location whose failure ended it

vars ==
    << pc, cam, disc, sent, response_ok, server_addr_rtp, negotiated, built, events,
       event, texture, maybe_some_yuv, decoded, shown, nRecv, nDecode, nDecodeErr,
       nPaint, quit_posted, nRecvQuit, result, failed_at >>

\* The locals of one get_camera_stream() call.
locals == << response_ok, server_addr_rtp, events, texture, maybe_some_yuv, decoded, shown >>

\* The per-camera counters of the capture loop.
counters == << nRecv, nDecode, nDecodeErr, nPaint, nRecvQuit >>

Range(s) == {s[i] : i \in 1..Len(s)}

\* The locations of the capture loop.
LoopPcs == {"poll", "get_rtp", "try_decode", "paint"}

\* The locations at which the process has ended.
ExitPcs == {"main_ok", "main_err", "panicked"}

\* The SDL context of the current call is alive (between sdl2::init and its drop).
SdlLive == cam \in Cams /\ "sdl_init" \in built[cam] /\ pc \in Range(BuildOrder) \cup LoopPcs

\* Number of sends of method m issued for camera c.
Count(c, m) == Cardinality({i \in 1..Len(sent[c]) : sent[c][i][1] = m})

Init ==
    /\ pc = "discovery"
    /\ cam = 0
    /\ disc = << >>
    /\ sent = [c \in Cams |-> << >>]
    /\ response_ok = FALSE
    /\ server_addr_rtp = FALSE
    /\ negotiated = [c \in Cams |-> "unread"]
    /\ built = [c \in Cams |-> {}]
    /\ events = << >>
    /\ event = [c \in Cams |-> "none"]
    /\ texture = 0
    /\ maybe_some_yuv = "unset"
    /\ decoded = << >>
    /\ shown = << >>
    /\ nRecv = [c \in Cams |-> 0]
    /\ nDecode = [c \in Cams |-> 0]
    /\ nDecodeErr = [c \in Cams |-> 0]
    /\ nPaint = [c \in Cams |-> 0]
    /\ quit_posted = [c \in Cams |-> FALSE]
    /\ nRecvQuit = [c \in Cams |-> 0]
    /\ result = [c \in Cams |-> "none"]
    /\ failed_at = [c \in Cams |-> "none"]

\* The locals of the call are dropped.
DropLocals ==
    /\ response_ok' = FALSE
    /\ server_addr_rtp' = FALSE
    /\ events' = << >>
    /\ texture' = 0
    /\ maybe_some_yuv' = "unset"
    /\ decoded' = << >>
    /\ shown' = << >>

\* Variant of ReturnErr: main ignores the error of camera 1's call and goes on
\* to camera 2.
ReturnErrContinue(at) ==
    /\ result' = [result EXCEPT ![cam] = "Err"]
    /\ failed_at' = [failed_at EXCEPT ![cam] = at]
    /\ IF cam = 1
         THEN cam' = 2 /\ pc' = "rtsp_new"
         ELSE cam' = cam /\ pc' = "main_err"
    /\ DropLocals

\* get_camera_stream() returns Err from location `at`: main's `?` returns it.
ReturnErr(at) ==
    /\ result' = [result EXCEPT ![cam] = "Err"]
    /\ failed_at' = [failed_at EXCEPT ![cam] = at]
    /\ pc' = "main_err"
    /\ DropLocals
    /\ UNCHANGED cam

\* get_camera_stream() returns Ok(()): main goes on to the next camera.
ReturnOk ==
    /\ result' = [result EXCEPT ![cam] = "Ok"]
    /\ IF cam = 1
         THEN cam' = 2 /\ pc' = "rtsp_new"
         ELSE cam' = cam /\ pc' = "main_ok"
    /\ DropLocals
    /\ UNCHANGED failed_at

\* An `expect` or `unwrap` at location `at` panics: the process aborts.
Panic(at) ==
    /\ result' = [result EXCEPT ![cam] = "panic"]
    /\ failed_at' = [failed_at EXCEPT ![cam] = at]
    /\ pc' = "panicked"
    /\ events' = << >>
    /\ UNCHANGED << cam, response_ok, server_addr_rtp, texture, maybe_some_yuv, decoded, shown >>

\* Variant of OnvifSend: the result of the call is dropped without `?`.
OnvifSendIgnoreErr ==
    /\ pc = "discovery"
    /\ \E ok \in BOOLEAN :
         LET call == DiscoveryCalls[Len(disc) + 1] IN
         /\ disc' = Append(disc, <<call[1], call[2], ok>>)
         /\ IF Len(disc') = Len(DiscoveryCalls)
              THEN pc' = "rtsp_new" /\ cam' = 1
              ELSE pc' = "discovery" /\ cam' = cam
    /\ UNCHANGED << sent, negotiated, built, event, quit_posted, counters, result, failed_at, locals >>

\* main(): the next onvif_client.send(message, index).await? of lines 20-28.
OnvifSend ==
    /\ pc = "discovery"
    /\ \E ok \in BOOLEAN :
         LET call == DiscoveryCalls[Len(disc) + 1] IN
         /\ disc' = Append(disc, <<call[1], call[2], ok>>)
         /\ IF ~ok
              THEN pc' = "main_err" /\ cam' = cam
              ELSE IF Len(disc') = Len(DiscoveryCalls)
                     THEN pc' = "rtsp_new" /\ cam' = 1
                     ELSE pc' = "discovery" /\ cam' = cam
    /\ UNCHANGED << sent, negotiated, built, event, quit_posted, counters, result, failed_at, locals >>

\* Rtsp::new(&rtsp_uri, None).await?
RtspNew ==
    /\ pc = "rtsp_new"
    /\ \E ok \in BOOLEAN :
         IF ok
           THEN /\ pc' = Chain[1]
                /\ UNCHANGED << cam, result, failed_at, locals >>
           ELSE ReturnErr("rtsp_new")
    /\ UNCHANGED << disc, sent, negotiated, built, event, quit_posted, counters >>

\* Variant of SendChain: a failed send does not end the chain.
SendChainIgnoreErr ==
    /\ pc \in Range(Chain)
    /\ \E ok \in BOOLEAN, rok \in BOOLEAN, addr \in BOOLEAN :
         /\ sent' = [sent EXCEPT ![cam] = Append(@, <<pc, ok>>)]
         /\ response_ok' = (ok /\ rok)
         /\ server_addr_rtp' = IF ok /\ pc = "Setup" THEN addr ELSE server_addr_rtp
         /\ pc' = IF pc = "Options" THEN "Describe"
                  ELSE IF pc = "Describe" THEN "Setup"
                  ELSE IF pc = "Setup" THEN "Play"
                  ELSE "check"
    /\ UNCHANGED << cam, result, failed_at, events, texture, maybe_some_yuv, decoded, shown,
                    disc, negotiated, built, event, quit_posted, counters >>

\* Variant of SendChain: a failed send falls through to the Teardown at the end
\* of the function instead of returning.
SendChainThenTeardown ==
    /\ pc \in Range(Chain)
    /\ \E ok \in BOOLEAN, rok \in BOOLEAN, addr \in BOOLEAN :
         /\ sent' = [sent EXCEPT ![cam] = Append(@, <<pc, ok>>)]
         /\ response_ok' = (ok /\ rok)
         /\ server_addr_rtp' = IF ok /\ pc = "Setup" THEN addr ELSE server_addr_rtp
         /\ pc' = IF ~ok THEN "teardown"
                  ELSE IF pc = "Options" THEN "Describe"
                  ELSE IF pc = "Describe" THEN "Setup"
                  ELSE IF pc = "Setup" THEN "Play"
                  ELSE "check"
    /\ UNCHANGED << cam, result, failed_at, events, texture, maybe_some_yuv, decoded, shown,
                    disc, negotiated, built, event, quit_posted, counters >>

\* One link of rtsp.send(Options).await?.send(Describe).await?.send(Setup).await?
\* .send(Play).await? : an Err returns at once, an Ok leaves the response's status
\* in response_ok and goes on to the next link.
SendChain ==
    /\ pc \in Range(Chain)
    /\ \E ok \in BOOLEAN, rok \in BOOLEAN, addr \in BOOLEAN :
         /\ sent' = [sent EXCEPT ![cam] = Append(@, <<pc, ok>>)]
         /\ IF ok
              THEN /\ response_ok' = rok
                   /\ server_addr_rtp' = IF pc = "Setup" THEN addr ELSE server_addr_rtp
                   /\ pc' = IF pc = "Options" THEN "Describe"
                            ELSE IF pc = "Describe" THEN "Setup"
                            ELSE IF pc = "Setup" THEN "Play"
                            ELSE "check"
                   /\ UNCHANGED << cam, result, failed_at, events, texture, maybe_some_yuv,
                                   decoded, shown >>
              ELSE ReturnErr(pc)
    /\ UNCHANGED << disc, negotiated, built, event, quit_posted, counters >>

\* Variant of CheckResponseOk: the block is entered whatever the flag says.
CheckResponseOkIgnored ==
    /\ pc = "check"
    /\ negotiated' = [negotiated EXCEPT ![cam] = IF response_ok THEN "ok" ELSE "not_ok"]
    /\ pc' = BuildOrder[1]
    /\ UNCHANGED << cam, disc, sent, built, event, quit_posted, counters, result, failed_at, locals >>

\* Variant of CheckResponseOk: the Teardown sits inside the block, so a false flag
\* returns Ok(()) without it.
CheckResponseOkNoTeardown ==
    /\ pc = "check"
    /\ negotiated' = [negotiated EXCEPT ![cam] = IF response_ok THEN "ok" ELSE "not_ok"]
    /\ IF response_ok
         THEN /\ pc' = BuildOrder[1]
              /\ UNCHANGED << cam, result, failed_at, locals >>
         ELSE ReturnOk
    /\ UNCHANGED << disc, sent, built, event, quit_posted, counters >>

\* if rtsp.response_ok { ... } : the block is skipped when the flag is false.
CheckResponseOk ==
    /\ pc = "check"
    /\ negotiated' = [negotiated EXCEPT ![cam] = IF response_ok THEN "ok" ELSE "not_ok"]
    /\ pc' = IF response_ok THEN BuildOrder[1] ELSE "teardown"
    /\ UNCHANGED << cam, disc, sent, built, event, quit_posted, counters, result, failed_at, locals >>

\* The location after construction `at`.
AfterBuild(at) ==
    LET i == CHOOSE k \in 1..Len(BuildOrder) : BuildOrder[k] = at IN
    IF i = Len(BuildOrder) THEN "poll" ELSE BuildOrder[i + 1]

\* One construction of lines 56-76: Rtp::new(..).await?, connect(..).await?,
\* sdl2::init().expect, video().expect, window build()?, canvas build()?,
\* create_texture_static(..)?, event_pump().expect.
Build ==
    /\ pc \in Range(BuildOrder)
    /\ \E ok \in BOOLEAN :
         IF pc = "rtp_new" /\ ~server_addr_rtp
           THEN Panic("rtp_new") /\ UNCHANGED built
           ELSE IF ok
             THEN /\ built' = [built EXCEPT ![cam] = @ \cup {pc}]
                  /\ pc' = AfterBuild(pc)
                  /\ UNCHANGED << cam, result, failed_at, locals >>
             ELSE /\ UNCHANGED built
                  /\ IF pc \in Expects THEN Panic(pc) ELSE ReturnErr(pc)
    /\ UNCHANGED << disc, sent, negotiated, event, quit_posted, counters >>

\* The user or the window system queues an input event while SDL is up.
PostEvent ==
    /\ SdlLive
    /\ Len(events) < MaxEvents
    /\ \E e \in Events :
         /\ events' = Append(events, e)
         /\ quit_posted' = [quit_posted EXCEPT ![cam] = @ \/ e \in {"Quit", "KeyDownEscape"}]
    /\ UNCHANGED << pc, cam, disc, sent, response_ok, server_addr_rtp, negotiated, built,
                    event, texture, maybe_some_yuv, decoded, shown, counters, result,
                    failed_at >>

\* Index of the first queued event the match arm takes, 0 if none.
FirstQuit(q) ==
    IF \E i \in 1..Len(q) : IsQuit(q[i])
      THEN CHOOSE i \in 1..Len(q) : IsQuit(q[i]) /\ \A j \in 1..(i - 1) : ~IsQuit(q[j])
      ELSE 0

\* Variant of Poll: an unlabelled `break` leaves only the `for` over the queued
\* events, so the loop body goes on to the receive.
PollBreakInner ==
    /\ pc = "poll"
    /\ LET i == FirstQuit(events) IN
         IF i > 0
           THEN /\ event' = [event EXCEPT ![cam] = events[i]]
                /\ events' = SubSeq(events, i + 1, Len(events))
           ELSE /\ event' = [event EXCEPT ![cam] =
                                IF events = << >> THEN "none" ELSE events[Len(events)]]
                /\ events' = << >>
    /\ pc' = "get_rtp"
    /\ UNCHANGED << cam, disc, sent, response_ok, server_addr_rtp, negotiated, built,
                    quit_posted, texture, maybe_some_yuv, decoded, shown, counters, result,
                    failed_at >>

\* for event in event_pump.poll_iter() { match event { Quit | Escape => break
\* 'read_rtp_packets, _ => {} } } : the queue is drained up to the first quit
\* event, which leaves the loop and the block (its locals' SDL context is shut).
Poll ==
    /\ pc = "poll"
    /\ LET i == FirstQuit(events) IN
         IF i > 0
           THEN /\ event' = [event EXCEPT ![cam] = events[i]]
                /\ pc' = "teardown"
           ELSE /\ event' = [event EXCEPT ![cam] =
                                IF events = << >> THEN "none" ELSE events[Len(events)]]
                /\ pc' = "get_rtp"
    /\ events' = << >>
    /\ UNCHANGED << cam, disc, sent, response_ok, server_addr_rtp, negotiated, built,
                    quit_posted, texture, maybe_some_yuv, decoded, shown, counters, result, failed_at >>

\* Variant of GetRtp: the receive error is dropped and the loop body goes on.
GetRtpIgnoreErr ==
    /\ pc = "get_rtp"
    /\ \E ok \in BOOLEAN :
         /\ ok => nRecv[cam] < MaxRecv
         /\ nRecv' = [nRecv EXCEPT ![cam] = IF ok THEN @ + 1 ELSE @]
         /\ pc' = "try_decode"
    /\ nRecvQuit' = [nRecvQuit EXCEPT ![cam] = IF quit_posted[cam] THEN @ + 1 ELSE @]
    /\ UNCHANGED << cam, result, failed_at, locals, disc, sent, negotiated, built, event, quit_posted,
                    nDecode, nDecodeErr, nPaint >>

\* rtp_stream.get_rtp().await?
GetRtp ==
    /\ pc = "get_rtp"
    /\ \E ok \in BOOLEAN :
         IF ok
           THEN /\ nRecv[cam] < MaxRecv
                /\ nRecv' = [nRecv EXCEPT ![cam] = @ + 1]
                /\ pc' = "try_decode"
                /\ UNCHANGED << cam, result, failed_at, locals >>
           ELSE /\ ReturnErr("get_rtp")
                /\ UNCHANGED nRecv
    /\ nRecvQuit' = [nRecvQuit EXCEPT ![cam] = IF quit_posted[cam] THEN @ + 1 ELSE @]
    /\ UNCHANGED << disc, sent, negotiated, built, event, quit_posted, nDecode, nDecodeErr, nPaint >>

\* Variant of TryDecode: the decoder's error is returned with `?`.
TryDecodeFatal ==
    /\ pc = "try_decode"
    /\ \E r \in {"Some", "None", "Err"} :
         /\ nDecode' = [nDecode EXCEPT ![cam] = @ + 1]
         /\ nDecodeErr' = [nDecodeErr EXCEPT ![cam] = IF r = "Err" THEN @ + 1 ELSE @]
         /\ IF r = "Err"
              THEN ReturnErr("try_decode")
              ELSE /\ maybe_some_yuv' = r
                   /\ decoded' = IF r = "Some" THEN Append(decoded, nRecv[cam]) ELSE decoded
                   /\ pc' = IF r = "Some" THEN "paint" ELSE "poll"
                   /\ UNCHANGED << cam, response_ok, server_addr_rtp, events, texture, shown,
                                   result, failed_at >>
    /\ UNCHANGED << disc, sent, negotiated, built, event, quit_posted, nRecv, nPaint, nRecvQuit >>

\* let maybe_some_yuv = rtp_stream.try_decode(); match maybe_some_yuv { .. } :
\* Some(yuv) goes on to paint, None and Err(e) are logged. The frame completed
\* by the n-th packet is named n.
TryDecode ==
    /\ pc = "try_decode"
    /\ \E r \in {"Some", "None", "Err"} :
         /\ maybe_some_yuv' = r
         /\ nDecode' = [nDecode EXCEPT ![cam] = @ + 1]
         /\ nDecodeErr' = [nDecodeErr EXCEPT ![cam] = IF r = "Err" THEN @ + 1 ELSE @]
         /\ decoded' = IF r = "Some" THEN Append(decoded, nRecv[cam]) ELSE decoded
         /\ pc' = IF r = "Some" THEN "paint" ELSE "poll"
    /\ UNCHANGED << cam, disc, sent, response_ok, server_addr_rtp, negotiated, built,
                    events, event, quit_posted, texture, shown, nRecv, nPaint, nRecvQuit, result, failed_at >>

\* let _result = texture.update_yuv(..); canvas.clear();
\* canvas.copy(&texture, None, None).expect(..); canvas.present();
\* A failed update is ignored and leaves the texture as it was; a failed copy panics.
Paint ==
    /\ pc = "paint"
    /\ \E updated \in BOOLEAN, copied \in BOOLEAN :
         /\ texture' = IF updated THEN decoded[Len(decoded)] ELSE texture
         /\ IF copied
              THEN /\ shown' = Append(shown, texture')
                   /\ nPaint' = [nPaint EXCEPT ![cam] = @ + 1]
                   /\ pc' = "poll"
                   /\ UNCHANGED << cam, result, failed_at, events >>
              ELSE /\ result' = [result EXCEPT ![cam] = "panic"]
                   /\ failed_at' = [failed_at EXCEPT ![cam] = "copy"]
                   /\ pc' = "panicked"
                   /\ events' = << >>
                   /\ UNCHANGED << cam, shown, nPaint >>
    /\ UNCHANGED << disc, sent, response_ok, server_addr_rtp, negotiated, built, event, quit_posted,
                    maybe_some_yuv, decoded, nRecv, nDecode, nDecodeErr, nRecvQuit >>

\* Variant of SendTeardown: a failed Teardown send is only logged.
SendTeardownSwallow ==
    /\ pc = "teardown"
    /\ \E ok \in BOOLEAN :
         /\ sent' = [sent EXCEPT ![cam] = Append(@, <<"Teardown", ok>>)]
         /\ ReturnOk
    /\ UNCHANGED << disc, negotiated, built, event, quit_posted, counters >>

\* let is_ok = rtsp.send(Methods::Teardown).await?.response_ok; info!(..); Ok(())
SendTeardown ==
    /\ pc = "teardown"
    /\ \E ok \in BOOLEAN :
         /\ sent' = [sent EXCEPT ![cam] = Append(@, <<"Teardown", ok>>)]
         /\ IF ok THEN ReturnOk ELSE ReturnErr("teardown")
    /\ UNCHANGED << disc, negotiated, built, event, quit_posted, counters >>

Next ==
    \/ OnvifSend
    \/ RtspNew
    \/ SendChain
    \/ CheckResponseOk
    \/ Build
    \/ PostEvent
    \/ Poll
    \/ GetRtp
    \/ TryDecode
    \/ Paint
    \/ SendTeardown

Spec == Init /\ [][Next]_vars

TypeOK ==
    /\ pc \in {"discovery", "rtsp_new", "check", "teardown"} \cup Range(Chain)
              \cup Range(BuildOrder) \cup LoopPcs \cup ExitPcs
    /\ cam \in 0..2
    /\ Len(events) <= MaxEvents
    /\ \A c \in Cams : nRecv[c] <= MaxRecv
\* ------------------------------------------------------------------ claims

\* get_camera_stream() has been called for camera c.
Started(c) == cam >= c

\* Some ONVIF call of camera c (profile index c - 1) returned an error.
DiscoveryFailed(c) == \E i \in 1..Len(disc) : disc[i][2] = c - 1 /\ ~disc[i][3]

\* Number of Teardown sends issued for camera c.
Teardowns(c) == Count(c, "Teardown")

\* The Teardown send of camera c returned an error.
TeardownFailed(c) == \E i \in 1..Len(sent[c]) : sent[c][i] = <<"Teardown", FALSE>>

\* Options, Describe, Setup and Play were all sent for camera c and returned Ok.
ChainOk(c) ==
    /\ Len(sent[c]) >= Len(Chain)
    /\ \A i \in 1..Len(Chain) : sent[c][i] = <<Chain[i], TRUE>>

\* The capture loop of camera c was entered.
LoopEntered(c) == "event_pump" \in built[c]

\* get_camera_stream() for camera c has ended (returned or panicked).
Ended(c) == result[c] # "none"

\* C1: a discovery failure for camera A never prevents camera B's pipeline from
\* being started: when the process has ended, every camera whose own discovery did
\* not fail has had get_camera_stream called, whatever the other camera's
\* discovery did.
C1_DiscoveryIsolation ==
    pc \in ExitPcs =>
        \A a \in Cams, b \in Cams :
            (a # b /\ DiscoveryFailed(a) /\ ~DiscoveryFailed(b)) => Started(b)

\* C2: for every session whose capture loop was entered, once the call has ended
\* (by a quit event, a receive error or a paint error) Teardown has been sent
\* exactly once.
C2_TeardownOncePerSession ==
    \A c \in Cams : (LoopEntered(c) /\ Ended(c)) => Teardowns(c) = 1

\* C3: the Rtp receiver and the display surface are constructed, and a frame is
\* painted, only for a camera whose Options, Describe, Setup and Play sends all
\* returned Ok and whose response_ok was then read as true.
C3_BuiltOnlyAfterNegotiation ==
    \A c \in Cams :
        (built[c] # {} \/ nPaint[c] > 0 \/ nRecv[c] > 0 \/ (cam = c /\ pc \in LoopPcs))
            => (ChainOk(c) /\ negotiated[c] = "ok")

\* C3 witness: a frame was painted for a camera whose texture was built.
C3_Witness == \E c \in Cams : nPaint[c] > 0 /\ "texture" \in built[c] /\ "rtp_new" \in built[c]

\* C4 as stated: when negotiation did not succeed, Teardown was attempted exactly
\* once if and only if at least Options was issued.
C4_TeardownIffOptionsIssued ==
    \A c \in Cams :
        (Ended(c) /\ negotiated[c] # "ok") =>
            /\ Teardowns(c) <= 1
            /\ (Teardowns(c) = 1) <=> (sent[c] # << >>)

\* C4 amended: when negotiation did not succeed, Teardown was attempted exactly
\* once if all four of Options, Describe, Setup and Play returned Ok (response_ok
\* was then read as false), and not at all if one of them, or Rtsp::new, failed.
C4_TeardownIffChainSent ==
    \A c \in Cams :
        /\ negotiated[c] # "ok" => Teardowns(c) <= 1
        /\ negotiated[c] = "not_ok" => ChainOk(c)
        /\ (Ended(c) /\ negotiated[c] # "ok") =>
               Teardowns(c) = (IF ChainOk(c) THEN 1 ELSE 0)

\* C4 witness: camera 1 ended with response_ok false and its one Teardown, and
\* camera 2 ended on a failed Play with no Teardown.
C4_Witness ==
    /\ result[1] = "Ok" /\ negotiated[1] = "not_ok" /\ Teardowns(1) = 1
    /\ result[2] = "Err" /\ failed_at[2] = "Play" /\ Teardowns(2) = 0

\* C5: a failed Teardown send is only logged: the process does not end with an
\* error because of it, and a failed Teardown of camera 1 is still followed by
\* get_camera_stream for camera 2.
C5_TeardownErrorOnlyLogged ==
    \A c \in Cams :
        TeardownFailed(c) =>
            /\ pc # "main_err"
            /\ (pc \in ExitPcs /\ c = 1) => Started(2)

\* C6: a receive error in one camera's capture loop does not prevent the other
\* camera's pipeline from being attempted: when the process has ended after a
\* get_rtp error of camera a, get_camera_stream was called for the other camera.
C6_ReceiveErrorIsolated ==
    pc \in ExitPcs =>
        \A a \in Cams, b \in Cams :
            (a # b /\ failed_at[a] = "get_rtp") => Started(b)

\* C7: once the event poll of camera c has yielded a quit event or an escape-key
\* event, camera c is not in its capture loop again, and no receive, decode or
\* paint happens for it, in that iteration or later.
C7_QuitStopsLoop ==
    [][\A c \in Cams :
          event[c] \in {"Quit", "KeyDownEscape"} =>
              /\ ~(cam = c /\ pc \in LoopPcs)
              /\ ~(cam' = c /\ pc' \in LoopPcs)
              /\ nRecv'[c] = nRecv[c]
              /\ nDecode'[c] = nDecode[c]
              /\ nPaint'[c] = nPaint[c]
              /\ failed_at'[c] \notin {"get_rtp", "copy"}]_vars

\* C7 witness: after at least one full iteration, the poll yielded an escape-key
\* event and the loop was left.
C7_Witness ==
    \E c \in Cams : event[c] = "KeyDownEscape" /\ nRecv[c] > 0 /\ cam = c /\ pc = "teardown"

\* C8: a try_decode call that returns an error never ends the capture loop: the
\* step that decodes to Err leads to the event poll of the next iteration, with
\* the call still running, however many decode errors came before.
C8_DecodeErrorContinues ==
    [][\A c \in Cams :
          (nDecode'[c] # nDecode[c] /\ nDecodeErr'[c] # nDecodeErr[c]) =>
              /\ pc' = "poll"
              /\ cam' = c
              /\ result'[c] = "none"
              /\ failed_at'[c] = "none"]_vars

\* C8 witness: after two decode errors in a row the loop is at its next receive.
C8_Witness ==
    \E c \in Cams : nDecodeErr[c] >= 2 /\ nDecode[c] = nDecodeErr[c] /\ cam = c /\ pc = "get_rtp"

\* C9: between iterations the frames presented on the display are exactly the
\* Some(frame) outputs of try_decode, in arrival order.
C9_ShownEqualsDecoded ==
    (pc \in {"poll", "get_rtp", "teardown"} /\ cam \in Cams /\ LoopEntered(cam))
        => shown = decoded

\* C10: a camera whose four sends returned Ok but whose response_ok was read as
\* false has no receive call and no paint, at most one Teardown at any time, and
\* exactly one once its call has ended.
C10_NotOkOnlyTeardown ==
    \A c \in Cams :
        (ChainOk(c) /\ negotiated[c] = "not_ok") =>
            /\ nRecv[c] = 0
            /\ failed_at[c] # "get_rtp"
            /\ nDecode[c] = 0
            /\ nPaint[c] = 0
            /\ built[c] = {}
            /\ Teardowns(c) <= 1
            /\ Ended(c) => Teardowns(c) = 1

\* C10 witness: such a camera's call has ended.
C10_Witness == \E c \in Cams : ChainOk(c) /\ negotiated[c] = "not_ok" /\ Ended(c)
\* C11: once response_ok was read as true, Teardown is attempted on every path:
\* a call that has ended after a true response_ok has sent Teardown, also when
\* the receiver or the display failed to open.
C11_TeardownAfterNegotiation ==
    \A c \in Cams : (negotiated[c] = "ok" /\ Ended(c)) => Teardowns(c) >= 1

\* The last texture.update_yuv of the running call failed: the texture does not
\* hold the frame decoded last.
UpdateFailed ==
    /\ cam \in Cams
    /\ pc # "paint"
    /\ decoded # << >>
    /\ texture # decoded[Len(decoded)]

\* A paint of camera c failed: its canvas.copy, or the last texture update.
PaintFailed(c) == failed_at[c] = "copy" \/ (cam = c /\ UpdateFailed)

\* C12: a paint failure (texture update or canvas copy) is fatal to that
\* camera's loop and nothing more: after it the camera is not in its loop any
\* more, the process has not panicked, and once the call has ended Teardown was
\* sent.
C12_PaintFailureFatalToLoopOnly ==
    \A c \in Cams :
        PaintFailed(c) =>
            /\ ~(cam = c /\ pc \in LoopPcs)
            /\ pc # "panicked"
            /\ Ended(c) => Teardowns(c) = 1

\* C13: the sends of Options, Describe, Setup and Play of a camera are a prefix
\* of that order, each one after the Ok of all before it, and a camera whose
\* four sends did not all return Ok has no receive.
C13_ChainInOrder ==
    \A c \in Cams :
        /\ \A i \in 1..Len(sent[c]) :
               sent[c][i][1] \in Range(Chain) =>
                   /\ i <= Len(Chain)
                   /\ sent[c][i][1] = Chain[i]
                   /\ \A j \in 1..(i - 1) : sent[c][j] = <<Chain[j], TRUE>>
        /\ ~ChainOk(c) =>
               /\ nRecv[c] = 0
               /\ failed_at[c] # "get_rtp"
               /\ ~(cam = c /\ pc \in LoopPcs)

\* C13 witness: camera 2's chain ended on a failed Setup, after camera 1's
\* chain went through all four.
C13_Witness ==
    /\ ChainOk(1)
    /\ sent[2] = << <<"Options", TRUE>>, <<"Describe", TRUE>>, <<"Setup", FALSE>> >>
    /\ result[2] = "Err"

\* The ONVIF calls issued so far for camera c, in order: <<message, index, ok>>.
IsCallOf(c, d) == d[2] = c - 1
DiscOf(c) == SelectSeq(disc, LAMBDA d : IsCallOf(c, d))

\* The four ONVIF messages of one camera, in program order.
DiscoveryOrder == <<"Capabilities", "DeviceInfo", "Profiles", "GetStreamURI">>

\* C14: the ONVIF calls of a camera are a prefix of Capabilities, DeviceInfo,
\* Profiles, GetStreamURI (so each at most once), nothing follows a failed
\* call, and get_camera_stream is called (and any RTSP command sent) for a
\* camera only after all four of its calls returned Ok.
C14_DiscoveryInOrder ==
    \A c \in Cams :
        /\ Len(DiscOf(c)) <= Len(DiscoveryOrder)
        /\ \A i \in 1..Len(DiscOf(c)) :
               /\ DiscOf(c)[i][1] = DiscoveryOrder[i]
               /\ ~DiscOf(c)[i][3] => i = Len(DiscOf(c))
        /\ (Started(c) \/ sent[c] # << >>) =>
               /\ Len(DiscOf(c)) = Len(DiscoveryOrder)
               /\ ~DiscoveryFailed(c)
        /\ DiscoveryFailed(c) => (pc = "main_err" /\ sent[c] = << >>)

\* C14 witness: camera 2's session was opened after its four calls.
C14_Witness == sent[2] # << >> /\ Len(DiscOf(2)) = Len(DiscoveryOrder)

\* The last RTSP send of camera c.
LastSent(c) == sent[c][Len(sent[c])]

\* C16: a call that returned Ok sent Teardown exactly once, as its last send,
\* and that send returned Ok; a call that returned Err either never sent
\* Teardown or failed at its one Teardown send; main returns Ok only if both
\* calls returned Ok.
C16_OkOnlyAfterTeardown ==
    /\ \A c \in Cams :
           /\ result[c] = "Ok" =>
                  (Teardowns(c) = 1 /\ LastSent(c) = <<"Teardown", TRUE>>)
           /\ result[c] = "Err" =>
                  \/ Teardowns(c) = 0 /\ failed_at[c] # "teardown"
                  \/ /\ Teardowns(c) = 1
                     /\ failed_at[c] = "teardown"
                     /\ LastSent(c) = <<"Teardown", FALSE>>
    /\ pc = "main_ok" => \A c \in Cams : result[c] = "Ok"

\* C16 witness: camera 1 returned Ok and camera 2 failed at its Teardown.
C16_Witness == result[1] = "Ok" /\ result[2] = "Err" /\ failed_at[2] = "teardown"

\* C18: an RTSP command is sent only after all eight ONVIF calls returned Ok,
\* and get_camera_stream is called for camera 2 only after camera 1's call
\* returned Ok, so the two sessions never overlap.
C18_OneCameraAtATime ==
    /\ (cam # 0 \/ \E c \in Cams : sent[c] # << >>) =>
           /\ Len(disc) = Len(DiscoveryCalls)
           /\ \A i \in 1..Len(disc) : disc[i][3]
    /\ (Started(2) \/ sent[2] # << >>) =>
           /\ result[1] = "Ok"
           /\ LastSent(1) = <<"Teardown", TRUE>>
    /\ \A c \in Cams : (sent[c] # << >> /\ ~Ended(c)) => cam = c

\* C18 witness: camera 2 is in its capture loop.
C18_Witness == cam = 2 /\ pc = "get_rtp" /\ result[1] = "Ok"

\* C19: try_decode was called once for each get_rtp that returned Ok (the call
\* for the packet just received still pending at that location), and a failed
\* get_rtp ended the call with no decode and no paint after it.
C19_DecodePerReceive ==
    \A c \in Cams :
        /\ nRecv[c] = nDecode[c] + (IF cam = c /\ pc = "try_decode" THEN 1 ELSE 0)
        /\ nPaint[c] <= nDecode[c]
        /\ failed_at[c] = "get_rtp" => (pc = "main_err" /\ result[c] = "Err")

\* C19 witness: a receive failed after two packets were received and decoded.
C19_Witness ==
    \E c \in Cams : failed_at[c] = "get_rtp" /\ nRecv[c] = 2 /\ nDecode[c] = 2
\* C15: the receive location is entered only from the event poll, which has
\* emptied the queue, and for each camera at most one get_rtp call returns
\* after a quit or escape event was queued.
C15_PollBeforeReceive ==
    [][/\ (pc' = "get_rtp" /\ pc # "get_rtp") => (pc = "poll" /\ events' = << >>)
       /\ \A c \in Cams : nRecvQuit'[c] <= 1]_vars

\* C15 witness: a quit or escape event was queued during a receive, that
\* receive returned, and the next poll left the loop.
C15_Witness ==
    \E c \in Cams : nRecvQuit[c] = 1 /\ nDecode[c] = nRecv[c] /\ nRecv[c] > 0
                    /\ cam = c /\ pc = "teardown"

\* C17: once a quit or escape event is queued for a camera in its capture
\* loop, the loop exits and Teardown is sent: a call that has ended after such
\* an event has sent Teardown.
C17_QuitLeadsToTeardown ==
    \A c \in Cams :
        (LoopEntered(c) /\ quit_posted[c] /\ Ended(c)) => Teardowns(c) >= 1
====
